---- MODULE Spec2Model ----
(***************************************************************************)
(* Model of nbhttp's server.py: one HttpServerConnection, its transport    *)
(* (push_tcp connection), the parser events delivered to it and the        *)
(* response API (res_start / res_body / res_done) the application calls.   *)
(*                                                                         *)
(* Byte strings are TLA+ strings; a write of several lines is a sequence   *)
(* of strings (the lines and the separators between them).  Python floats  *)
(* for the protocol version are modelled in tenths (1.1 is 11).            *)
(***************************************************************************)
EXTENDS Integers, Sequences, FiniteSets, TLC

VARIABLES conn, tcp, fault, last, resp, nreq, called, ret

vars == <<conn, tcp, fault, last, resp, nreq, called, ret>>

(***************************************************************************)
(* Bounds of the model.                                                    *)
(***************************************************************************)
MaxReq == 2
MaxBody == 2

(***************************************************************************)
(* Names imported from common.py and error.py.                             *)
(***************************************************************************)
CLOSE == "close"
COUNTED == "counted"
CHUNKED == "chunked"
NONE == "none"
WAITING == "waiting"
HEADERS_DONE == "headers_done"
linesep == "\r\n"
dummy == "dummy"
hop_by_hop_hdrs ==
    {"connection", "keep-alive", "proxy-authenticate", "proxy-authorization",
     "te", "trailers", "transfer-encoding", "upgrade", "content-length"}

\* error descriptors are dictionaries; a call is given a descriptor by value
ERR_HTTP_VERSION ==
    [desc |-> "HTTP Version Not Supported",
     status |-> <<"505", "HTTP Version Not Supported">>]
ERR_HOST_REQ == [desc |-> "Host header required"]
ERR_CHUNK == [desc |-> "Chunked encoding error"]

(***************************************************************************)
(* Python values.                                                          *)
(***************************************************************************)
PyNone == "None"
NoCallback == 0
NoVersion == -1
NoError == [none |-> TRUE]

\* truth value of res_done's err argument: None and the empty dict are false
Truthy(err) == err # NoError /\ DOMAIN err # {}

\* name.strip().lower() on the header names the model uses
Norm(name) ==
    CASE name = "Content-Type" -> "content-type"
      [] name = "Content-Length" -> "content-length"
      [] name = " content-length " -> "content-length"
      [] name = "Connection" -> "connection"
      [] name = "Transfer-Encoding" -> "transfer-encoding"
      [] name = "Host" -> "host"
      [] name = "HOST " -> "host"
      [] name = "Accept" -> "accept"
      [] OTHER -> name

\* int(value): the values that parse, and what they parse to
IntParses(value) == value \in {"0", "4", "04", "17", "+4", " 4 ", "-1"}
IntOf(value) ==
    CASE value = "0" -> 0
      [] value = "4" -> 4
      [] value = "04" -> 4
      [] value = "17" -> 17
      [] value = "+4" -> 4
      [] value = " 4 " -> 4
      [] value = "-1" -> -1
      [] OTHER -> 0

Digit(d) == CASE d = 0 -> "0" [] d = 1 -> "1" [] d = 2 -> "2" [] d = 3 -> "3"
              [] d = 4 -> "4" [] d = 5 -> "5" [] d = 6 -> "6" [] d = 7 -> "7"
              [] d = 8 -> "8" [] d = 9 -> "9" [] d = 10 -> "a" [] d = 11 -> "b"
              [] d = 12 -> "c" [] d = 13 -> "d" [] d = 14 -> "e" [] OTHER -> "f"

RECURSIVE Digits(_, _)
Digits(n, base) ==
    IF n < base THEN Digit(n) ELSE Digits(n \div base, base) \o Digit(n % base)

\* str(n) for an int
Str(n) == IF n < 0 THEN "-" \o Digits(0 - n, 10) ELSE Digits(n, 10)

\* hex(n)[2:] for a non-negative int
Hex(n) == Digits(n, 16)

\* sep.join(lines), kept as the sequence of its pieces
RECURSIVE Join(_, _)
Join(lines, sep) ==
    IF Len(lines) = 0 THEN <<>>
    ELSE IF Len(lines) = 1 THEN lines
    ELSE <<Head(lines), sep>> \o Join(Tail(lines), sep)

(***************************************************************************)
(* The transport (push_tcp connection): the calls made on it are logged.   *)
(***************************************************************************)
TcpWrite(t, data) == [t EXCEPT !.calls = Append(@, [op |-> "write", data |-> data])]
TcpClose(t) ==
    [t EXCEPT !.calls = Append(@, [op |-> "close", data |-> <<>>]),
              !.tcp_connected = FALSE]
\* pause(paused) stops or resumes the reading, which is the transport's own
\* business: nothing that the connection can see changes
TcpPause(t, paused) == t
\* the transport has closed and tells its owner so
TcpClosed(t) == [t EXCEPT !.tcp_connected = FALSE, !.reported = TRUE]

(***************************************************************************)
(* A world is the connection object (c), its transport (t), the exception  *)
(* the running call has raised (exc) and its return value (ret).  The      *)
(* remaining fields observe the                                            *)
(* run: g follows the response in progress, h counts the invocations of    *)
(* the request handler, ev lists the callbacks the running call invoked.   *)
(***************************************************************************)
World == [c |-> conn, t |-> tcp, exc |-> "none", ret |-> FALSE,
          g |-> resp, h |-> nreq, ev |-> <<>>]
Raise(w, exception) == [w EXCEPT !.exc = exception]
Ok(w) == w.exc = "none"

\* self._tcp_conn.write(data): the handle may be None
conn_write(w, data) ==
    IF ~w.c.tcp_conn THEN Raise(w, "AttributeError")
    ELSE [w EXCEPT !.t = TcpWrite(@, data)]

\* self._tcp_conn.close()
conn_close(w) ==
    IF ~w.c.tcp_conn THEN Raise(w, "AttributeError")
    ELSE [w EXCEPT !.t = TcpClose(@)]

\* self._tcp_conn.pause(paused)
conn_pause(w, paused) ==
    IF ~w.c.tcp_conn THEN Raise(w, "AttributeError")
    ELSE [w EXCEPT !.t = TcpPause(@, paused),
                   !.ev = Append(@, [what |-> "pause", cb |-> 0,
                                     arg |-> [paused |-> paused]])]

(***************************************************************************)
(* res_start                                                               *)
(***************************************************************************)
HdrLine(name, value) == name \o ": " \o value

\* mutant: a Content-Length that does not parse is skipped instead of raising
RECURSIVE HdrLoop_Swallow(_, _, _)
HdrLoop_Swallow(res_hdrs, res_len, res_top) ==
    IF res_hdrs = <<>> THEN [raised |-> FALSE, res_len |-> res_len, res_top |-> res_top]
    ELSE LET name == Head(res_hdrs)[1]
             value == Head(res_hdrs)[2]
             norm_name == Norm(name)
             len1 == IF norm_name = "content-length" /\ IntParses(value)
                     THEN <<IntOf(value)>> ELSE res_len
         IN IF norm_name \in hop_by_hop_hdrs
            THEN HdrLoop_Swallow(Tail(res_hdrs), len1, res_top)
            ELSE HdrLoop_Swallow(Tail(res_hdrs), len1,
                                 Append(res_top, HdrLine(name, value)))

\* mutant: the hop-by-hop headers of the caller are kept
RECURSIVE HdrLoop_KeepAll(_, _, _)
HdrLoop_KeepAll(res_hdrs, res_len, res_top) ==
    IF res_hdrs = <<>> THEN [raised |-> FALSE, res_len |-> res_len, res_top |-> res_top]
    ELSE LET name == Head(res_hdrs)[1]
             value == Head(res_hdrs)[2]
             norm_name == Norm(name)
         IN IF norm_name = "content-length" /\ ~IntParses(value)
            THEN [raised |-> TRUE, res_len |-> res_len, res_top |-> res_top]
            ELSE HdrLoop_KeepAll(Tail(res_hdrs),
                                 IF norm_name = "content-length"
                                 THEN <<IntOf(value)>> ELSE res_len,
                                 Append(res_top, HdrLine(name, value)))

\* the loop over res_hdrs: res_len is <<>> for None, <<n>> for an int
RECURSIVE HdrLoop(_, _, _)
HdrLoop(res_hdrs, res_len, res_top) ==
    IF res_hdrs = <<>> THEN [raised |-> FALSE, res_len |-> res_len, res_top |-> res_top]
    ELSE LET name == Head(res_hdrs)[1]
             value == Head(res_hdrs)[2]
             norm_name == Norm(name)
         IN IF norm_name = "content-length" /\ ~IntParses(value)
            THEN [raised |-> TRUE, res_len |-> res_len, res_top |-> res_top]
            ELSE LET len1 == IF norm_name = "content-length"
                             THEN <<IntOf(value)>> ELSE res_len
                 IN IF norm_name \in hop_by_hop_hdrs
                    THEN HdrLoop(Tail(res_hdrs), len1, res_top)
                    ELSE HdrLoop(Tail(res_hdrs), len1,
                                 Append(res_top, HdrLine(name, value)))

\* mutant: the Content-Length test comes before the "close" test
SelectDelimiter_LengthFirst(connection_hdr, res_len, req_version) ==
    IF res_len # <<>>
    THEN [delimit |-> COUNTED,
          add |-> <<"Content-Length: " \o Str(res_len[1]), "Connection: keep-alive">>]
    ELSE IF "close" \in connection_hdr
    THEN [delimit |-> CLOSE, add |-> <<"Connection: close, asked_for">>]
    ELSE IF 20 > req_version /\ req_version >= 11
    THEN [delimit |-> CHUNKED, add |-> <<"Transfer-Encoding: chunked">>]
    ELSE [delimit |-> CLOSE, add |-> <<"Connection: close">>]

\* the if/elif chain that picks the delimiter and its framing headers
SelectDelimiter(connection_hdr, res_len, req_version) ==
    IF "close" \in connection_hdr
    THEN [delimit |-> CLOSE, add |-> <<"Connection: close, asked_for">>]
    ELSE IF res_len # <<>>
    THEN [delimit |-> COUNTED,
          add |-> <<"Content-Length: " \o Str(res_len[1]), "Connection: keep-alive">>]
    ELSE IF 20 > req_version /\ req_version >= 11
    THEN [delimit |-> CHUNKED, add |-> <<"Transfer-Encoding: chunked">>]
    ELSE [delimit |-> CLOSE, add |-> <<"Connection: close">>]

SetDelimit(w, delimit) == [w EXCEPT !.c.res_delimit = delimit]
SetState(w, res_state) == [w EXCEPT !.c.res_state = res_state]

\* line 165 runs unless line 164 raised
HeadersDone(w) == IF Ok(w) THEN SetState(w, HEADERS_DONE) ELSE w

\* lines 150-165, given the loop's result and the delimiter's choice
WriteHead(w, res_top, sel) ==
    HeadersDone(conn_write(SetDelimit(w, sel.delimit),
                           Join(res_top \o sel.add \o <<linesep>>, linesep)))

\* lines 150-165, given the loop's result
AfterLoop(w, loop) ==
    IF loop.raised THEN Raise(w, "ValueError")
    ELSE WriteHead(w, loop.res_top,
                   SelectDelimiter(w.c.connection_hdr, loop.res_len, w.c.req_version))

res_start(w, status_code, status_phrase, res_hdrs, res_body_pause) ==
    IF w.c.res_state # WAITING THEN Raise(w, "AssertionError")
    ELSE AfterLoop([w EXCEPT !.c.res_body_pause_cb = res_body_pause],
                   HdrLoop(res_hdrs, <<>>,
                           <<"HTTP/1.1 " \o status_code \o " " \o status_phrase>>))

(***************************************************************************)
(* res_body                                                                *)
(***************************************************************************)
\* mutant: the length is written in decimal
ChunkEnvelope_Decimal(chunk) == Str(Len(chunk)) \o "\r\n" \o chunk \o "\r\n"

\* "%s\r\n%s\r\n" % (hex(len(chunk))[2:], chunk)
ChunkEnvelope(chunk) == Hex(Len(chunk)) \o "\r\n" \o chunk \o "\r\n"

\* mutant: no assertion on the phase
res_body_NoAssert(w, chunk) ==
    IF chunk = "" THEN w
    ELSE IF w.c.res_delimit = CHUNKED
    THEN conn_write(w, <<ChunkEnvelope(chunk)>>)
    ELSE conn_write(w, <<chunk>>)

\* mutant: every chunk gets the chunked envelope, whatever the delimiter
res_body_AlwaysChunked(w, chunk) ==
    IF w.c.res_state # HEADERS_DONE THEN Raise(w, "AssertionError")
    ELSE IF chunk = "" THEN w
    ELSE conn_write(w, <<ChunkEnvelope(chunk)>>)

res_body(w, chunk) ==
    IF w.c.res_state # HEADERS_DONE THEN Raise(w, "AssertionError")
    ELSE IF chunk = "" THEN w
    ELSE IF w.c.res_delimit = CHUNKED
    THEN conn_write(w, <<ChunkEnvelope(chunk)>>)
    ELSE conn_write(w, <<chunk>>)

(***************************************************************************)
(* res_done                                                                *)
(***************************************************************************)
\* the branches of res_done without an error
EndByDelimit(w) ==
    IF w.c.res_delimit = NONE THEN w
    ELSE IF w.c.res_delimit = CHUNKED THEN conn_write(w, <<"0\r\n\r\n">>)
    ELSE IF w.c.res_delimit = CLOSE THEN conn_close(w)
    ELSE IF w.c.res_delimit = COUNTED THEN w
    ELSE Raise(w, "AssertionError")

\* mutant: the error is ignored and the response ends by its delimiter
res_done_IgnoreErr(w, err) ==
    IF w.c.res_state # HEADERS_DONE THEN Raise(w, "AssertionError")
    ELSE EndByDelimit(SetState(w, WAITING))

res_done(w, err) ==
    IF w.c.res_state # HEADERS_DONE THEN Raise(w, "AssertionError")
    ELSE IF Truthy(err) THEN conn_close(SetState(w, WAITING))
    ELSE EndByDelimit(SetState(w, WAITING))

(***************************************************************************)
(* req_body_pause, _res_body_pause, _conn_closed                           *)
(***************************************************************************)
\* mutant: the request is forwarded while the connection holds the handle,
\* live or not
req_body_pause_NoGuard(w, paused) ==
    IF w.c.tcp_conn THEN conn_pause(w, paused) ELSE w

req_body_pause(w, paused) ==
    IF w.c.tcp_conn /\ w.t.tcp_connected THEN conn_pause(w, paused) ELSE w

_res_body_pause(w, paused) ==
    IF w.c.res_body_pause_cb # PyNone
    THEN [w EXCEPT !.ev = Append(@, [what |-> "res_body_pause_cb",
                                     cb |-> w.c.res_body_pause_cb,
                                     arg |-> [paused |-> paused]])]
    ELSE w

\* the body is a pass, whatever the phase
_conn_closed(w) == IF w.c.res_state # WAITING THEN w ELSE w

(***************************************************************************)
(* Observation of the response in progress: the number of responses        *)
(* started and not done (open) and the non-empty chunks given to res_body  *)
(* since res_start; writer tells that the application holds the res_body   *)
(* and res_done that a res_start of its own returned.  The transport's log is a window: a response that      *)
(* starts drops the calls made before its header block, which is then the  *)
(* first entry (mark) of the log.                                          *)
(***************************************************************************)
NoResp == [open |-> 0, mark |-> 0, chunks |-> <<>>, writer |-> FALSE, notified |-> {}]

Started(w0, w) ==
    IF Ok(w)
    THEN [w EXCEPT !.g = [open |-> w0.g.open + 1, mark |-> 1, chunks |-> <<>>,
                          writer |-> w0.g.writer, notified |-> w0.g.notified],
                   !.t.calls = <<w.t.calls[Len(w.t.calls)]>>]
    ELSE w

ObsStart(w, status_code, status_phrase, res_hdrs, res_body_pause) ==
    Started(w, res_start(w, status_code, status_phrase, res_hdrs, res_body_pause))

Written(w, chunk) ==
    IF Ok(w) /\ chunk # "" THEN [w EXCEPT !.g.chunks = Append(@, chunk)] ELSE w

ObsBody(w, chunk) == Written(res_body(w, chunk), chunk)

Ended(w0, w) ==
    IF w0.c.res_state = HEADERS_DONE /\ w.c.res_state = WAITING
    THEN [w EXCEPT !.g.open = @ - 1] ELSE w

ObsDone(w, err) == Ended(w, res_done(w, err))

\* the caller keeps the pair (res_body, res_done) that res_start returns
Returned(w) == IF Ok(w) THEN [w EXCEPT !.g.writer = TRUE] ELSE w

\* res_start called by the application
AppStart(w, status_code, status_phrase, res_hdrs, res_body_pause) ==
    Returned(ObsStart(w, status_code, status_phrase, res_hdrs, res_body_pause))

\* the statements that follow a call run unless the call raised
ThenBody(w, chunk) == IF Ok(w) THEN ObsBody(w, chunk) ELSE w
ThenDone(w, err) == IF Ok(w) THEN ObsDone(w, err) ELSE w

(***************************************************************************)
(* _handle_error                                                           *)
(***************************************************************************)
\* self.res_done() at the end of _handle_error: res_done takes one argument
res_done_noarg(w) == Raise(w, "TypeError")

HasKey(dict, key) == key \in DOMAIN dict
SetDetail(dict, detail) ==
    [k \in DOMAIN dict \cup {"detail"} |-> IF k = "detail" THEN detail ELSE dict[k]]

\* err.get('status', ('400', 'Bad Request'))
StatusOf(err) == IF HasKey(err, "status") THEN err.status ELSE <<"400", "Bad Request">>

\* the body: the description and the detail, if any, in parentheses
BodyOf(err) ==
    IF HasKey(err, "detail") THEN err.desc \o " (" \o err.detail \o ")" ELSE err.desc

\* line 285 runs unless line 284 raised
ThenDoneNoArg(w) == IF Ok(w) THEN res_done_noarg(w) ELSE w

\* lines 276-285, given the descriptor after line 275
RespondError(w, err) ==
    ThenDoneNoArg(ThenBody(ObsStart(w, StatusOf(err)[1], StatusOf(err)[2],
                                    <<<<"Content-Type", "text/plain">>>>, dummy),
                           BodyOf(err)))

_handle_error(w, err, detail) ==
    IF w.c.res_state # WAITING THEN Raise(w, "AssertionError")
    ELSE RespondError(w, IF detail # "" THEN SetDetail(err, detail) ELSE err)

(***************************************************************************)
(* test_handler, and an application that answers later                     *)
(***************************************************************************)
test_handler(w) ==
    ThenDone(ThenBody(AppStart(w, "200", "OK", <<<<"Content-Type", "text/plain">>>>,
                               dummy),
                      "foo!"),
             NoError)

Invoked(w) == [w EXCEPT !.h = @ + 1]

request_handler(w, handler) ==
    IF handler = "test_handler" THEN test_handler(Invoked(w)) ELSE Invoked(w)

(***************************************************************************)
(* _input_start                                                            *)
(* top_line is the sequence of its whitespace-separated words, each word   *)
(* the sequence of its "/"-separated parts.                                *)
(***************************************************************************)
RECURSIVE JoinText(_, _)
JoinText(pieces, sep) ==
    IF Len(pieces) = 0 THEN ""
    ELSE IF Len(pieces) = 1 THEN pieces[1]
    ELSE pieces[1] \o sep \o JoinText(Tail(pieces), sep)

\* the text of the top line
Text(top_line) ==
    JoinText([i \in 1..Len(top_line) |-> JoinText(top_line[i], "/")], " ")

\* float(text) on the version numbers the model uses
FloatParses(text) == text \in {"1.0", "1.1", "2.0"}
FloatOf(text) ==
    CASE text = "1.0" -> 10
      [] text = "1.1" -> 11
      [] text = "2.0" -> 20
      [] OTHER -> 0

\* the try block: split, rsplit, rsplit('/', 1)[1], float
ParseFailed(exception) == [exc |-> exception, method |-> "", version |-> 0]

\* float(req_version.rsplit('/', 1)[1])
ParseVersion(method, req_version) ==
    IF Len(req_version) < 2 THEN ParseFailed("IndexError")
    ELSE IF ~FloatParses(req_version[Len(req_version)]) THEN ParseFailed("ValueError")
    ELSE [exc |-> "none", method |-> method,
          version |-> FloatOf(req_version[Len(req_version)])]

ParseTopLine(top_line) ==
    IF Len(top_line) < 2 THEN ParseFailed("ValueError")
    ELSE IF Len(top_line) < 3 THEN ParseFailed("ValueError")
    ELSE ParseVersion(JoinText(top_line[1], "/"), top_line[Len(top_line)])

HasHost(hdr_tuples) ==
    \E i \in 1..Len(hdr_tuples) : Norm(hdr_tuples[i][1]) = "host"

\* content_length is NoLength for None
NoLength == -1
AllowsBody(content_length, transfer_codes) ==
    (content_length # NoLength /\ content_length # 0) \/ transfer_codes # <<>>

\* an exception that passes through is kept; otherwise ValueError is raised
RaiseAfter(w, exception) == IF Ok(w) THEN Raise(w, exception) ELSE w

\* line 249 (the callbacks the handler returned) and lines 251-252, unless the
\* handler raised
Retain(w, allows_body) ==
    IF Ok(w)
    THEN [w EXCEPT !.c.req_body_cb = w.h, !.c.req_done_cb = w.h, !.ret = allows_body]
    ELSE w

\* lines 241-252, once the top line is parsed
Accept(w, p, hdr_tuples, conn_tokens, transfer_codes, content_length, handler) ==
    IF p.version = 11 /\ ~HasHost(hdr_tuples)
    THEN RaiseAfter(_handle_error([w EXCEPT !.c.req_version = p.version],
                                  ERR_HOST_REQ, ""),
                    "ValueError")
    ELSE Retain(request_handler([w EXCEPT !.c.req_version = p.version,
                                          !.c.method = p.method,
                                          !.c.connection_hdr = conn_tokens],
                                handler),
                AllowsBody(content_length, transfer_codes))

\* lines 234-252, given the outcome of the try block
AfterParse(w, p, top_line, hdr_tuples, conn_tokens, transfer_codes, content_length, handler) ==
    IF p.exc = "ValueError"
    THEN RaiseAfter(_handle_error(w, ERR_HTTP_VERSION, Text(top_line)), "ValueError")
    ELSE IF p.exc # "none" THEN Raise(w, p.exc)
    ELSE Accept(w, p, hdr_tuples, conn_tokens, transfer_codes, content_length, handler)

_input_start(w, top_line, hdr_tuples, conn_tokens, transfer_codes, content_length, handler) ==
    IF w.c.input_state # WAITING THEN Raise(w, "AssertionError")
    ELSE AfterParse(w, ParseTopLine(top_line), top_line, hdr_tuples, conn_tokens,
                    transfer_codes, content_length, handler)

\* the parser after _input_start returned: a message is now in progress
ParserAfterStart(w) ==
    IF Ok(w) THEN [w EXCEPT !.c.input_state = HEADERS_DONE] ELSE w

(***************************************************************************)
(* _input_body, _input_end, _input_error                                   *)
(***************************************************************************)
\* calling a retained callback: None is not callable
Call(w, what, cb, arg) ==
    IF cb = NoCallback THEN Raise(w, "TypeError")
    ELSE [w EXCEPT !.ev = Append(@, [what |-> what, cb |-> cb, arg |-> arg])]

_input_body(w, chunk) == Call(w, "req_body_cb", w.c.req_body_cb, [chunk |-> chunk])

_input_end(w) == Call(w, "req_done_cb", w.c.req_done_cb, NoError)

\* lines 265-267
DropTransport(w) ==
    IF w.c.tcp_conn
    THEN [conn_close(w) EXCEPT !.c.tcp_conn = FALSE,
                               !.ev = Append(@, [what |-> "close", cb |-> 0,
                                                 arg |-> NoError])]
    ELSE w

NotifyError(w, err) == Call(w, "req_done_cb", w.c.req_done_cb, err)

\* mutant: the handler is notified before the transport is closed
_input_error_NotifyFirst(w, err, detail) ==
    DropTransport(NotifyError(w, SetDetail(err, detail)))

_input_error(w, err, detail) == NotifyError(DropTransport(w), SetDetail(err, detail))

\* the log is kept while the connection holds the transport's handle
Dropped(w0, w) ==
    IF w0.c.tcp_conn /\ ~w.c.tcp_conn
    THEN [w EXCEPT !.t.calls = <<w.t.calls[Len(w.t.calls)]>>, !.g.chunks = <<>>]
    ELSE w

ObsError(w, err, detail) == Dropped(w, _input_error(w, err, detail))

\* the parser after the end of a message: ready for the next one
ParserAfterEnd(w) == [w EXCEPT !.c.input_state = WAITING]

\* the done callbacks the call has invoked, by the request they were returned for
DoneCalls(ev) == { ev[i].cb : i \in { j \in 1..Len(ev) : ev[j].what = "req_done_cb" } }

\* notified remembers the requests whose done callback has been called
ObsNotified(w) == [w EXCEPT !.g.notified = @ \cup DoneCalls(w.ev)]

(***************************************************************************)
(* Inputs of the application's calls and of the parser's events.           *)
(***************************************************************************)
ResHdrChoices ==
    { <<<<"Content-Type", "text/plain">>>>,
      <<<<"Content-Type", "text/plain">>, <<"Content-Length", "4">>>>,
      <<<<"Content-Type", "text/plain">>, <<"Content-Length", "04">>>>,
      <<<<" content-length ", "abc">>>>,
      <<<<"Connection", "keep-alive">>, <<"Transfer-Encoding", "gzip">>>> }
Chunks == {"", "foo!", "0123456789abcdefg"}
PauseCallbacks == {dummy}
DoneErrors == {NoError, [desc |-> "application error"]}

TopLines ==
    { <<<<"GET">>, <<"", "">>, <<"HTTP", "1.1">>>>,
      <<<<"GET">>, <<"", "">>, <<"HTTP", "1.0">>>>,
      <<<<"GET">>>>,
      <<<<"GET">>, <<"", "">>, <<"HTTP1.1">>>> }
HdrTuples == { <<<<"HOST ", "x">>>>, <<<<"Accept", "x">>>> }
ConnTokens == { {}, {"close"} }
TransferCodes == { <<>>, <<"chunked">> }
ContentLengths == { NoLength, 0, 4 }
Handlers == { "test_handler", "deferred" }
ParseErrors == { ERR_CHUNK }

\* the requests the parser announces: the arguments of _input_start and the
\* handler the server was made with
GET11 == <<<<"GET">>, <<"", "">>, <<"HTTP", "1.1">>>>
GET10 == <<<<"GET">>, <<"", "">>, <<"HTTP", "1.0">>>>
WithHost == <<<<"HOST ", "x">>>>
NoHost == <<<<"Accept", "x">>>>
Requests ==
    { <<GET11, WithHost, {}, <<>>, NoLength, "test_handler">>,
      <<GET11, WithHost, {}, <<>>, NoLength, "deferred">>,
      <<GET11, WithHost, {"close"}, <<>>, 4, "test_handler">>,
      <<GET11, WithHost, {"close"}, <<"chunked">>, NoLength, "deferred">>,
      <<GET10, NoHost, {}, <<>>, 0, "test_handler">>,
      <<GET10, NoHost, {}, <<>>, 4, "deferred">>,
      <<GET10, WithHost, {"close"}, <<>>, NoLength, "deferred">>,
      <<GET11, NoHost, {}, <<>>, NoLength, "test_handler">>,
      <<GET11, NoHost, {"close"}, <<>>, 0, "deferred">>,
      <<<<<<"GET">>>>, WithHost, {}, <<>>, NoLength, "test_handler">>,
      <<<<<<"GET">>>>, NoHost, {"close"}, <<>>, 4, "deferred">>,
      <<<<<<"GET">>, <<"", "">>, <<"HTTP1.1">>>>, WithHost, {}, <<>>, NoLength,
        "test_handler">> }

(***************************************************************************)
(* State                                                                   *)
(***************************************************************************)
Init ==
    /\ conn = [req_body_cb |-> NoCallback,
               req_done_cb |-> NoCallback,
               method |-> PyNone,
               req_version |-> NoVersion,
               tcp_conn |-> TRUE,
               res_state |-> WAITING,
               connection_hdr |-> {},
               res_delimit |-> PyNone,
               res_body_pause_cb |-> PyNone,
               input_state |-> WAITING]
    /\ tcp = [tcp_connected |-> TRUE, calls |-> <<>>, reported |-> FALSE]
    /\ fault = "none"
    /\ last = "init"
    /\ resp = NoResp
    /\ nreq = 0
    /\ called = <<>>
    /\ ret = FALSE

\* the effect of a finished call on the state
Commit(w) ==
    /\ Len(w.g.chunks) <= MaxBody
    /\ w.h <= MaxReq
    /\ conn' = w.c
    /\ tcp' = w.t
    /\ fault' = w.exc
    /\ resp' = w.g
    /\ nreq' = w.h
    /\ called' = w.ev
    /\ ret' = w.ret

\* the application's calls: it is given res_start when its handler is invoked,
\* and res_body and res_done when a res_start returns
ResStartOf(res_hdrs, cb) ==
    /\ nreq >= 1
    /\ Commit(AppStart(World, "200", "OK", res_hdrs, cb))
    /\ last' = "res_start"

ResStart == \E res_hdrs \in ResHdrChoices, cb \in PauseCallbacks : ResStartOf(res_hdrs, cb)

ResBodyOf(chunk) ==
    /\ resp.writer
    /\ Commit(ObsBody(World, chunk))
    /\ last' = "res_body"

ResBody == \E chunk \in Chunks : ResBodyOf(chunk)

ResDoneOf(err) ==
    /\ resp.writer
    /\ Commit(ObsDone(World, err))
    /\ last' = "res_done"

ResDone == \E err \in DoneErrors : ResDoneOf(err)

\* the transport delivers input to the parser only while it is connected
Delivering == tcp.tcp_connected

\* the parser's events
InputStartOf(top_line, hdr_tuples, conn_tokens, transfer_codes, content_length, handler) ==
    /\ Delivering
    /\ conn.input_state = WAITING
    /\ Commit(ParserAfterStart(_input_start(World, top_line, hdr_tuples, conn_tokens,
                                            transfer_codes, content_length, handler)))
    /\ last' = "_input_start"

InputStart ==
    \E req \in Requests : InputStartOf(req[1], req[2], req[3], req[4], req[5], req[6])

InputBodyOf(chunk) ==
    /\ Delivering
    /\ conn.input_state = HEADERS_DONE
    /\ Commit(_input_body(World, chunk))
    /\ last' = "_input_body"

InputBody == \E chunk \in Chunks \ {""} : InputBodyOf(chunk)

InputEnd ==
    /\ Delivering
    /\ conn.input_state = HEADERS_DONE
    /\ Commit(ObsNotified(ParserAfterEnd(_input_end(World))))
    /\ last' = "_input_end"

InputErrorOf(err) ==
    /\ Delivering
    /\ Commit(ObsNotified(ObsError(World, err, PyNone)))
    /\ last' = "_input_error"

InputError == \E err \in ParseErrors : InputErrorOf(err)

\* the handler is given req_body_pause when it is invoked
ReqBodyPauseOf(paused) ==
    /\ nreq >= 1
    /\ Commit(req_body_pause(World, paused))
    /\ last' = "req_body_pause"

ReqBodyPause == \E paused \in BOOLEAN : ReqBodyPauseOf(paused)

\* the transport's notifications: its write buffer fills or drains, it closes
ResBodyPauseOf(paused) ==
    /\ tcp.tcp_connected
    /\ Commit(_res_body_pause(World, paused))
    /\ last' = "_res_body_pause"

ResBodyPause == \E paused \in BOOLEAN : ResBodyPauseOf(paused)

ConnClosed ==
    /\ ~tcp.reported
    /\ Commit(_conn_closed([World EXCEPT !.t = TcpClosed(@)]))
    /\ last' = "_conn_closed"

(***************************************************************************)
(* Properties                                                              *)
(***************************************************************************)
WriteCall(data) == [op |-> "write", data |-> data]
CloseCall == [op |-> "close", data |-> <<>>]
LastCall == tcp.calls[Len(tcp.calls)]

\* a response header has the name "content-length" once stripped and lowered
HasContentLength(res_hdrs) ==
    \E i \in 1..Len(res_hdrs) : res_hdrs[i][1] \in {"Content-Length", " content-length "}
ContentLengthValues(res_hdrs) ==
    { res_hdrs[i][2] : i \in { j \in 1..Len(res_hdrs) :
                                 res_hdrs[j][1] \in {"Content-Length", " content-length "} } }
NonNegativeIntegers == {"0", "4", "04", "17"}

\* C1: a response-API call made out of its phase (res_start while a response
\* is open, res_body or res_done while none is) raises a fault, writes nothing
\* to the transport and leaves the connection as it was; at most one response
\* is open at any time.
C1_OutOfPhaseCallsFail ==
    /\ [](resp.open <= 1)
    /\ [][ /\ (last' = "res_start" /\ conn.res_state = HEADERS_DONE)
               => (fault' = "AssertionError" /\ tcp' = tcp /\ conn' = conn)
           /\ (last' \in {"res_body", "res_done"} /\ conn.res_state = WAITING)
               => (fault' = "AssertionError" /\ tcp' = tcp /\ conn' = conn) ]_vars

\* res_start was refused while a response was open
C1_Witness ==
    /\ last = "res_start"
    /\ fault = "AssertionError"
    /\ conn.res_state = HEADERS_DONE
    /\ resp.open = 1

\* the delimiter the priority order asks for
ExpectedDelimiter(tokens, has_length, version) ==
    IF "close" \in tokens THEN CLOSE
    ELSE IF has_length THEN COUNTED
    ELSE IF version = 11 THEN CHUNKED
    ELSE CLOSE

\* C2: for every combination of request connection tokens, response
\* Content-Length (absent or a non-negative integer) and request version
\* (1.0 or 1.1), res_start picks Close if the tokens contain "close", else
\* Counted if a Content-Length is given, else Chunked for 1.1, else Close.
C2_DelimiterPriority ==
    [][ last' = "res_start" =>
        \A res_hdrs \in ResHdrChoices, cb \in PauseCallbacks :
          ( /\ conn.res_state = WAITING
            /\ conn.req_version \in {10, 11}
            /\ ContentLengthValues(res_hdrs) \subseteq NonNegativeIntegers
            /\ ResStartOf(res_hdrs, cb) )
          => conn'.res_delimit =
               ExpectedDelimiter(conn.connection_hdr, HasContentLength(res_hdrs),
                                 conn.req_version) ]_vars

\* Counted was picked for a 1.1 request without "close": the Content-Length
\* came before the version
C2_Witness ==
    /\ last = "res_start"
    /\ fault = "none"
    /\ conn.res_delimit = COUNTED
    /\ conn.req_version = 11
    /\ "close" \notin conn.connection_hdr

\* the last header line of a rendered header block
LastHeader(data) == data[Len(data) - 2]

FramingHeader(delimit) ==
    CASE delimit = CLOSE -> "Connection: close"
      [] delimit = COUNTED -> "Connection: keep-alive"
      [] delimit = CHUNKED -> "Transfer-Encoding: chunked"
      [] OTHER -> ""

\* C3: the framing header res_start adds is decided by the delimiter:
\* exactly "Connection: close" for Close (with the "close" token and in the
\* fallback case), "Connection: keep-alive" for Counted and
\* "Transfer-Encoding: chunked" for Chunked.
C3_FramingHeader ==
    (last = "res_start" /\ fault = "none" /\ tcp.tcp_connected)
        => LastHeader(tcp.calls[1].data) = FramingHeader(conn.res_delimit)

\* C4: res_start with a Content-Length that is no integer raises an error:
\* nothing is written, no delimiter is chosen and the phase stays WAITING.
C4_BadContentLengthFails ==
    [][ last' = "res_start" =>
        \A res_hdrs \in ResHdrChoices, cb \in PauseCallbacks :
          ( /\ conn.res_state = WAITING
            /\ ContentLengthValues(res_hdrs) \cap {"abc"} # {}
            /\ ResStartOf(res_hdrs, cb) )
          => ( /\ fault' = "ValueError"
               /\ tcp' = tcp
               /\ conn'.res_delimit = conn.res_delimit
               /\ conn'.res_state = WAITING ) ]_vars

\* res_start has raised on a Content-Length of "abc"
C4_Witness ==
    /\ last = "res_start"
    /\ fault = "ValueError"
    /\ conn.res_state = WAITING

\* the chunked envelope of the bodies the model writes
ExpectedEnvelope(chunk) ==
    CASE chunk = "foo!" -> "4\r\nfoo!\r\n"
      [] chunk = "0123456789abcdefg" -> "11\r\n0123456789abcdefg\r\n"
      [] chunk = "Host header required" -> "14\r\nHost header required\r\n"
      [] chunk = "HTTP Version Not Supported (GET)"
           -> "20\r\nHTTP Version Not Supported (GET)\r\n"
      [] OTHER -> "?"

\* a header block: a status line first, a blank line last
IsHeaderBlock(call) ==
    /\ call.op = "write"
    /\ Len(call.data) >= 5
    /\ call.data[1] \in {"HTTP/1.1 200 OK", "HTTP/1.1 400 Bad Request",
                          "HTTP/1.1 505 HTTP Version Not Supported"}
    /\ call.data[Len(call.data) - 1] = "\r\n"
    /\ call.data[Len(call.data)] = "\r\n"

\* C5: a Chunked response that finishes with res_done(no error) has written,
\* in order, the header block, one "<hex-length>\r\n<chunk>\r\n" envelope per
\* non-empty res_body call, and the terminator "0\r\n\r\n" once as the last
\* write; an empty chunk writes nothing and the transport is not closed.
C5_ChunkedSequence ==
    [][ /\ last' = "res_done" =>
            ( ( /\ ResDoneOf(NoError)
                /\ conn.res_state = HEADERS_DONE
                /\ conn.res_delimit = CHUNKED
                /\ fault' = "none" )
              => ( /\ IsHeaderBlock(tcp.calls[1])
                   /\ tcp'.calls =
                        <<tcp.calls[1]>>
                        \o [i \in 1..Len(resp.chunks) |->
                              WriteCall(<<ExpectedEnvelope(resp.chunks[i])>>)]
                        \o <<WriteCall(<<"0\r\n\r\n">>)>>
                   /\ tcp'.tcp_connected = tcp.tcp_connected ) )
        /\ last' = "res_body" =>
            ( /\ (ResBodyOf("") /\ fault' = "none") => tcp' = tcp
              /\ \A chunk \in Chunks \ {""} :
                   (ResBodyOf(chunk) /\ conn.res_delimit = CHUNKED /\ fault' = "none")
                   => tcp'.calls =
                        Append(tcp.calls, WriteCall(<<ExpectedEnvelope(chunk)>>)) ) ]_vars

\* a Chunked response of two different chunks has been finished
C5_Witness ==
    /\ last = "res_done"
    /\ fault = "none"
    /\ conn.res_delimit = CHUNKED
    /\ resp.chunks = <<"0123456789abcdefg", "foo!">>
    /\ Len(tcp.calls) = 4
    /\ LastCall = WriteCall(<<"0\r\n\r\n">>)
    /\ tcp.tcp_connected

\* C6: with the Close or Counted delimiter every res_body chunk is written
\* unmodified and in call order; with Close, res_done(no error) closes the
\* transport once, after all body writes; with Counted, res_done(no error)
\* neither writes nor closes.
C6_RawSequence ==
    [][ /\ last' = "res_done" =>
            ( ( /\ ResDoneOf(NoError)
                /\ conn.res_state = HEADERS_DONE
                /\ conn.res_delimit \in {CLOSE, COUNTED}
                /\ conn.tcp_conn
                /\ fault' = "none" )
              => ( /\ IsHeaderBlock(tcp.calls[1])
                   /\ tcp.calls =
                        <<tcp.calls[1]>>
                        \o [i \in 1..Len(resp.chunks) |-> WriteCall(<<resp.chunks[i]>>)]
                   /\ conn.res_delimit = CLOSE
                        => /\ tcp'.calls = Append(tcp.calls, CloseCall)
                           /\ ~tcp'.tcp_connected
                   /\ conn.res_delimit = COUNTED => tcp' = tcp ) )
        /\ last' = "res_body" =>
            \A chunk \in Chunks \ {""} :
              ( /\ ResBodyOf(chunk)
                /\ conn.res_delimit \in {CLOSE, COUNTED}
                /\ fault' = "none" )
              => tcp'.calls = Append(tcp.calls, WriteCall(<<chunk>>))
        /\ (last' = "_input_start" /\ fault' = "none" /\ nreq' = nreq + 1) =>
            \A req \in Requests :
              ( /\ req[3] = {"close"}
                /\ req[6] = "test_handler"
                /\ InputStartOf(req[1], req[2], req[3], req[4], req[5], req[6])
                /\ fault' = "none" )
              => ( /\ Len(tcp'.calls) = 3
                   /\ IsHeaderBlock(tcp'.calls[1])
                   /\ tcp'.calls[2] = WriteCall(<<"foo!">>)
                   /\ tcp'.calls[3] = CloseCall ) ]_vars

\* a Close response of two different chunks has been finished
C6_Witness ==
    /\ last = "res_done"
    /\ fault = "none"
    /\ conn.res_delimit = CLOSE
    /\ resp.chunks = <<"foo!", "0123456789abcdefg">>
    /\ Len(tcp.calls) = 4
    /\ LastCall = CloseCall

\* C7: res_done with an error on an open response closes the transport
\* whatever the delimiter, and writes no terminating chunk or other bytes.
C7_ErrorCloses ==
    [][ last' = "res_done" =>
        \A err \in DoneErrors \ {NoError} :
          (ResDoneOf(err) /\ conn.res_state = HEADERS_DONE)
          => ( /\ ~tcp'.tcp_connected
               /\ conn.tcp_conn => tcp'.calls = Append(tcp.calls, CloseCall)
               /\ ~conn.tcp_conn => tcp'.calls = tcp.calls ) ]_vars

\* a Chunked response has been ended by a close, which only an error does
C7_Witness ==
    /\ last = "res_done"
    /\ fault = "none"
    /\ conn.res_delimit = CHUNKED
    /\ resp.chunks # <<>>
    /\ LastCall = CloseCall

\* C8: res_done returns the phase to WAITING only when it did not close the
\* connection: after a res_done that closes the transport the phase is not
\* WAITING and no later res_start is accepted or writes bytes; after a
\* res_done without close the phase is WAITING.
C8_ClosedIsTerminated ==
    [][ /\ (last' = "res_done" /\ fault' = "none" /\ conn.res_state = HEADERS_DONE)
            => IF Len(tcp'.calls) > Len(tcp.calls) /\ tcp'.calls[Len(tcp'.calls)] = CloseCall
               THEN conn'.res_state # WAITING
               ELSE conn'.res_state = WAITING
        /\ (last' = "res_start" /\ ~tcp.tcp_connected /\ ~tcp.reported)
            => (fault' # "none" /\ tcp' = tcp) ]_vars

\* the request line and the version token are well formed
WellFormed(top_line) ==
    /\ Len(top_line) = 3
    /\ top_line[3] \in {<<"HTTP", "1.0">>, <<"HTTP", "1.1">>}

HostGiven(hdr_tuples) ==
    \E i \in 1..Len(hdr_tuples) : hdr_tuples[i][1] \in {"Host", "HOST "}

\* the request must be refused with an error response
Refused(top_line, hdr_tuples) ==
    \/ ~WellFormed(top_line)
    \/ top_line[3] = <<"HTTP", "1.1">> /\ ~HostGiven(hdr_tuples)

\* C9: a request start with a malformed request line or version token, or of
\* version 1.1 without a Host header, does not invoke the handler and produces
\* a complete error response (res_start, res_body, res_done), after which no
\* response is left open: the phase is WAITING or the connection is closed.
C9_ErrorResponseComplete ==
    [][ last' = "_input_start" =>
        \A req \in Requests :
          ( /\ InputStartOf(req[1], req[2], req[3], req[4], req[5], req[6])
            /\ Refused(req[1], req[2])
            /\ conn.res_state = WAITING )
          => ( /\ nreq' = nreq
               /\ Len(tcp'.calls) >= 2
               /\ IsHeaderBlock(tcp'.calls[1])
               /\ resp'.chunks # <<>>
               /\ conn'.res_state = WAITING \/ ~tcp'.tcp_connected ) ]_vars

\* a response of the application is open on a live transport
AppResponseOpen ==
    /\ conn.res_state # WAITING
    /\ conn.tcp_conn
    /\ tcp.tcp_connected
    /\ tcp.calls[1].data[1] = "HTTP/1.1 200 OK"

\* C10: a request start delivered while the response phase is not WAITING is
\* rejected: the handler is not invoked for it and the retained body and done
\* callbacks are not replaced.
C10_NoPipelining ==
    [][ (last' = "_input_start" /\ AppResponseOpen)
        => ( /\ nreq' = nreq
             /\ conn'.req_body_cb = conn.req_body_cb
             /\ conn'.req_done_cb = conn.req_done_cb ) ]_vars

\* the entries of called
Closing == [what |-> "close", cb |-> 0, arg |-> NoError]
DoneCall(cb, err) == [what |-> "req_done_cb", cb |-> cb, arg |-> err]

\* C11: on a parse error (_input_error) with a done callback retained, the
\* transport is closed first, the connection writes no bytes for the error,
\* and then the retained done callback is called with the error descriptor:
\* the close comes before the notification.
C11_ParseErrorClosesFirst ==
    [][ last' = "_input_error" =>
        \A err \in ParseErrors :
          (InputErrorOf(err) /\ conn.req_done_cb # NoCallback)
          => ( /\ called' = <<Closing, DoneCall(conn.req_done_cb, SetDetail(err, PyNone))>>
               /\ _input_error(World, err, PyNone).t.calls = Append(tcp.calls, CloseCall)
               /\ tcp'.calls = <<CloseCall>>
               /\ ~tcp'.tcp_connected
               /\ fault' = "none" ) ]_vars

\* a parse error has arrived in the middle of a request's body
C11_Witness ==
    /\ last = "_input_error"
    /\ fault = "none"
    /\ conn.input_state = HEADERS_DONE
    /\ ~conn.tcp_conn
    /\ Len(called) = 2
    /\ called[2].what = "req_done_cb"

\* the transport is closed for the connection, and not by a close that a
\* res_done of the connection asked for
TransportClosed ==
    \/ ~conn.tcp_conn
    \/ tcp.reported /\ (tcp.calls = <<>> \/ LastCall # CloseCall)

Pauses(ev) == { i \in 1..Len(ev) : ev[i].what = "pause" }

\* C12: once the transport is closed for the connection (it reported the
\* closure through _conn_closed, or _input_error dropped its handle), a later
\* res_start, res_body, res_done or req_body_pause performs no write, close or
\* pause on the transport and does not fault on the absent handle.
C12_ClosedCallsAreGuarded ==
    [][ ( /\ last' \in {"res_start", "res_body", "res_done", "req_body_pause"}
          /\ TransportClosed )
        => ( /\ tcp' = tcp
             /\ Pauses(called') = {}
             /\ fault' # "AttributeError" ) ]_vars

\* C13: for an accepted request _input_start returns that a body is expected
\* exactly when the request had a Content-Length (0 included) or its list of
\* transfer codings is not empty.
C13_BodyExpected ==
    [][ (last' = "_input_start" /\ fault' = "none") =>
        \A req \in Requests :
          InputStartOf(req[1], req[2], req[3], req[4], req[5], req[6])
          => (ret' <=> (req[5] # NoLength \/ req[4] # <<>>)) ]_vars

\* the lines of a rendered header block
Lines(data) == { data[i] : i \in 1..Len(data) }

\* C14: when res_start selects the Counted delimiter, the Content-Length
\* header of the rendered header block carries the value text the caller
\* supplied, unmodified.
C14_LengthEchoed ==
    [][ ( /\ last' = "res_start"
          /\ fault' = "none"
          /\ conn.res_state = WAITING
          /\ tcp.tcp_connected
          /\ conn'.res_delimit = COUNTED ) =>
        \A res_hdrs \in ResHdrChoices, cb \in PauseCallbacks :
          ResStartOf(res_hdrs, cb)
          => \A value \in ContentLengthValues(res_hdrs) :
               ("Content-Length: " \o value) \in Lines(tcp'.calls[1].data) ]_vars

\* the header lines of the model, by their stripped and lowered name
HeaderNames ==
    {"Content-Type", "Content-Length", " content-length ", "Connection",
     "Transfer-Encoding"}
HeaderValues ==
    {"text/plain", "0", "4", "04", "17", "abc", "keep-alive", "gzip", "chunked", "close",
     "close, asked_for"}
IsHeader(line, norm_name) ==
    \E name \in HeaderNames, value \in HeaderValues :
        Norm(name) = norm_name /\ line = HdrLine(name, value)
HeadersOf(data, norm_name) == { i \in 1..Len(data) : IsHeader(data[i], norm_name) }

\* the Connection and Transfer-Encoding lines the selector adds for a delimiter
FramingLines(delimit) ==
    CASE delimit = CLOSE -> {"Connection: close", "Connection: close, asked_for"}
      [] delimit = COUNTED -> {"Connection: keep-alive"}
      [] delimit = CHUNKED -> {"Transfer-Encoding: chunked"}
      [] OTHER -> {}

\* C15: whatever headers the caller supplies, the header block res_start
\* renders holds at most one Content-Length, at most one Connection and at
\* most one Transfer-Encoding header, and its Connection and
\* Transfer-Encoding headers are the selector's, never the caller's.
C15_NoDuplicateFraming ==
    (last = "res_start" /\ fault = "none")
        => /\ IsHeaderBlock(tcp.calls[1])
           /\ \A norm_name \in {"content-length", "connection", "transfer-encoding"} :
                Cardinality(HeadersOf(tcp.calls[1].data, norm_name)) <= 1
           /\ \A norm_name \in {"connection", "transfer-encoding"} :
                \A i \in HeadersOf(tcp.calls[1].data, norm_name) :
                    tcp.calls[1].data[i] \in FramingLines(conn.res_delimit)

\* the caller's Connection and Transfer-Encoding headers were dropped and
\* the selector's Transfer-Encoding header is the only header of the block
C15_Witness ==
    /\ last = "res_start"
    /\ fault = "none"
    /\ tcp.calls[1].data =
         <<"HTTP/1.1 200 OK", "\r\n", "Transfer-Encoding: chunked", "\r\n", "\r\n">>

\* C16: a request error (malformed request line, unsupported version, missing
\* Host) detected while a response is in flight closes the connection, writes
\* no bytes of an error response into the open response and lets no fault
\* escape to the caller.
C16_ErrorsDegradeToClose ==
    [][ (last' = "_input_start" /\ AppResponseOpen) =>
        \A req \in Requests :
          ( /\ Refused(req[1], req[2])
            /\ InputStartOf(req[1], req[2], req[3], req[4], req[5], req[6]) )
          => ( /\ tcp'.calls = Append(tcp.calls, CloseCall)
               /\ ~tcp'.tcp_connected
               /\ fault' \in {"none", "ValueError"} ) ]_vars

\* the length a header block declares, NoLength if it declares none
DeclaredLengths == 0..17
DeclaredLength(data) ==
    IF \E n \in DeclaredLengths : ("Content-Length: " \o Str(n)) \in Lines(data)
    THEN CHOOSE n \in DeclaredLengths : ("Content-Length: " \o Str(n)) \in Lines(data)
    ELSE NoLength

\* the number of bytes written after the header block
RECURSIVE BodyBytes(_, _)
BodyBytes(calls, i) ==
    IF i > Len(calls) THEN 0
    ELSE (IF calls[i].op = "write" THEN Len(calls[i].data[1]) ELSE 0)
         + BodyBytes(calls, i + 1)

\* C17: for a response with the Counted delimiter the body bytes written to
\* the transport since res_start never exceed the declared Content-Length.
C17_CountedWithinLength ==
    ( /\ conn.res_delimit = COUNTED
      /\ conn.tcp_conn
      /\ tcp.tcp_connected
      /\ tcp.calls # <<>>
      /\ IsHeaderBlock(tcp.calls[1]) )
    => BodyBytes(tcp.calls, 2) <= DeclaredLength(tcp.calls[1].data)

\* the entries of called that the pause signals make
PauseCall(paused) == [what |-> "pause", cb |-> 0, arg |-> [paused |-> paused]]
PauseCallback(cb, paused) ==
    [what |-> "res_body_pause_cb", cb |-> cb, arg |-> [paused |-> paused]]

\* C18: req_body_pause(p) calls the transport's pause(p) exactly when the
\* handle is present and the transport is live, and calls nothing otherwise;
\* _res_body_pause(p) calls the pause callback given to res_start, if any,
\* and never the transport; neither changes the phase, the delimiter or
\* anything else of the connection.
C18_PauseSignalsIndependent ==
    [][ /\ last' = "req_body_pause" =>
            \A paused \in BOOLEAN :
              ReqBodyPauseOf(paused)
              => ( /\ called' = IF conn.tcp_conn /\ tcp.tcp_connected
                                THEN <<PauseCall(paused)>> ELSE <<>>
                   /\ conn' = conn
                   /\ tcp' = tcp
                   /\ fault' = "none" )
        /\ last' = "_res_body_pause" =>
            \A paused \in BOOLEAN :
              ResBodyPauseOf(paused)
              => ( /\ called' = IF conn.res_body_pause_cb # PyNone
                                THEN <<PauseCallback(conn.res_body_pause_cb, paused)>>
                                ELSE <<>>
                   /\ conn' = conn
                   /\ tcp' = tcp
                   /\ fault' = "none" ) ]_vars

\* the handler's pause was forwarded while a response was in progress
C18_Witness ==
    /\ last = "req_body_pause"
    /\ called = <<PauseCall(TRUE)>>
    /\ conn.res_state = HEADERS_DONE
    /\ conn.res_delimit = CHUNKED

\* the status lines of the error responses
ErrorStatusLines ==
    {"HTTP/1.1 400 Bad Request", "HTTP/1.1 505 HTTP Version Not Supported"}

\* C19: on a connection that has served a request, the delimiter of the
\* error response to a rejected request comes from the tokens and the version
\* of that request: Close if it carries "close", and otherwise, for a 1.1
\* request without Host, Chunked.
C19_ErrorResponseOfOwnRequest ==
    [][ ( /\ last' = "_input_start"
          /\ nreq >= 1
          /\ conn.res_state = WAITING
          /\ tcp.tcp_connected
          /\ tcp' # tcp ) =>
        \A req \in Requests :
          ( /\ Refused(req[1], req[2])
            /\ InputStartOf(req[1], req[2], req[3], req[4], req[5], req[6])
            /\ tcp'.calls[1].data[1] \in ErrorStatusLines )
          => ( /\ "close" \in req[3] => conn'.res_delimit = CLOSE
               /\ ("close" \notin req[3] /\ WellFormed(req[1]))
                    => conn'.res_delimit = CHUNKED ) ]_vars

\* the calls of the callbacks that the handler returned
HandlerCalls(ev) ==
    { i \in 1..Len(ev) : ev[i].what \in {"req_body_cb", "req_done_cb"} }

\* C20: whatever events the parser delivers, a body, end or error event calls
\* only the callbacks of the request in progress, calls the done callback of
\* a request at most once, and never calls an absent callback.
C20_DoneOncePerRequest ==
    [][ last' \in {"_input_body", "_input_end", "_input_error"} =>
          /\ fault' # "TypeError"
          /\ \A i \in HandlerCalls(called') :
                /\ conn.input_state = HEADERS_DONE
                /\ called'[i].cb = nreq
          /\ DoneCalls(called') \cap resp.notified = {} ]_vars

Next ==
    \/ ResStart
    \/ ResBody
    \/ ResDone
    \/ InputStart
    \/ InputBody
    \/ InputEnd
    \/ InputError
    \/ ReqBodyPause
    \/ ResBodyPause
    \/ ConnClosed

Spec == Init /\ [][Next]_vars
====
